---------------------------- MODULE Spec2Model ----------------------------
(***************************************************************************)
(* Model of imgconceal's cryptographic core (src/src/imc_crypto.c):        *)
(* password-based context creation, the buffered byte-stream PRNG, the     *)
(* pointer shuffle driven by it, and the single-chunk secretstream         *)
(* encrypt / decrypt framing.                                              *)
(*                                                                         *)
(* Bytes are integers 0..255.  64-bit quantities (size_t, unsigned long    *)
(* long, uint64_t) are kept at their width as four 16-bit limbs, least     *)
(* significant first; a uint32_t is the first two limbs.                   *)
(***************************************************************************)
EXTENDS Integers, Sequences, FiniteSets, TLC

VARIABLES
    ctx,        \* the CryptoContext handed out through *out, or NULL
    heap,       \* number of live sodium_malloc'ed CryptoContext blocks
    locked,     \* stack buffers of the last create call left mlock'ed (not wiped) at its return
    seed0,      \* generator state right after prng_init of the live context
    consumed,   \* bytes handed out by imc_crypto_prng since the context was created
    frame,      \* the caller's output buffer of the last imc_crypto_encrypt
    frame_len,  \* its *output_len (64-bit)
    plain,      \* the data it encrypted: [bytes, len]
    frame_key,  \* the key it encrypted under
    last_op,    \* the operation that made the last step
    arg,        \* the inputs of that call
    ret,        \* its return status (0 for the void operations)
    res         \* the caller's buffers when it returned

vars == <<ctx, heap, locked, seed0, consumed, frame, frame_len, plain, frame_key,
          last_op, arg, ret, res>>

NULL == [null |-> TRUE]

-----------------------------------------------------------------------------
(* Bounds of the model *)

MaxN == 3           \* largest array handed to the shuffle
MaxRead == 3        \* largest num_bytes of a direct imc_crypto_prng call
MaxStream == 24     \* PRNG bytes a context hands out before the model stops reading
MaxLen == 1         \* longest plaintext whose bytes are tracked
MaxHeap == 1        \* live allocations before the model stops calling create
LenSpread == 3      \* lengths tried on each side of an interesting 64-bit length
PrngBufferBytes == 5 \* capacity of the PRNG buffer, scaled down

-----------------------------------------------------------------------------
(* Program and library constants *)

IMC_SUCCESS == 0
IMC_ERR_NO_MEMORY == -2
IMC_ERR_INVALID_PASS == -3
IMC_PRNG_BUFFER == PrngBufferBytes
IMC_HEADER_OVERHEAD == 12
IMC_CRYPTO_VERSION == 1
HEADERBYTES == 24
ABYTES == 17
KEYBYTES == 32
SEEDBYTES == 32
MACBYTES == 16
TAG_MESSAGE == 0
TAG_FINAL == 3
SODIUM_FAIL == -1

RECURSIVE BitXor(_, _)
BitXor(a, b) ==
    IF a = 0 THEN b
    ELSE IF b = 0 THEN a
    ELSE (((a % 2) + (b % 2)) % 2) + 2 * BitXor(a \div 2, b \div 2)

Zeros(n) == [i \in 1..n |-> 0]

-----------------------------------------------------------------------------
(* 64-bit and 32-bit unsigned integers as 16-bit limbs *)

LIMB == 65536

U64(n) == <<n % LIMB, n \div LIMB, 0, 0>>

\* a + b modulo 2^64
U64Add(a, b) ==
    LET c1 == (a[1] + b[1]) \div LIMB
        c2 == (a[2] + b[2] + c1) \div LIMB
        c3 == (a[3] + b[3] + c2) \div LIMB
    IN  << (a[1] + b[1]) % LIMB,
           (a[2] + b[2] + c1) % LIMB,
           (a[3] + b[3] + c2) % LIMB,
           (a[4] + b[4] + c3) % LIMB >>

\* a <= b
U64Le(a, b) ==
    \/ a = b
    \/ \E k \in 1..4 : a[k] < b[k] /\ \A j \in (k+1)..4 : a[j] = b[j]

\* a % m for a small modulus m > 0
U64Mod(a, m) ==
    LET r4 == a[4] % m
        r3 == (r4 * LIMB + a[3]) % m
        r2 == (r3 * LIMB + a[2]) % m
    IN  (r2 * LIMB + a[1]) % m

\* (uint32_t)a
U32Cast(a) == <<a[1], a[2]>>

\* the value of a uint32_t, widened back to 64 bits
U32Value(w) == <<w[1], w[2], 0, 0>>

\* htole32: the four bytes a uint32_t is stored as
Htole32(w) == <<w[1] % 256, w[1] \div 256, w[2] % 256, w[2] \div 256>>

\* the uint32_t a reader gets from four little-endian bytes
Le32toh(b) == <<b[1] + 256 * b[2], b[3] + 256 * b[4]>>

\* le64toh of the eight bytes stored at a uint64_t
Le64toh(b) == <<b[1] + 256 * b[2], b[3] + 256 * b[4], b[5] + 256 * b[6], b[7] + 256 * b[8]>>

-----------------------------------------------------------------------------
(* Password hashing (crypto_pwhash, Argon2id) as called by                 *)
(* imc_crypto_context_create                                               *)

\* PassBuff: the first bytes of the buffer, and its length as a size_t
Passwords ==
    { [buffer |-> <<>>,            length |-> U64(0)],
      [buffer |-> <<112, 119>>,    length |-> U64(2)],
      [buffer |-> <<120>>,         length |-> <<0, 0, 1, 0>>] }   \* 2^32 bytes

\* crypto_pwhash_PASSWD_MAX = 4294967295
PASSWD_MAX == <<LIMB - 1, LIMB - 1, 0, 0>>

\* the salt buffer: IMC_SALT copied over zeroes, at most crypto_pwhash_SALTBYTES
Salt == [i \in 1..16 |-> IF i <= 10 THEN 104 + i ELSE 0]

RECURSIVE SeqSum(_, _)
SeqSum(s, w) == IF s = <<>> THEN 0 ELSE (w * Head(s) + SeqSum(Tail(s), w + 2)) % 65521

PwDigest(password) ==
    (SeqSum(password.buffer, 3) + 7 * SeqSum(password.length, 5) + SeqSum(Salt, 1)) % 251

\* crypto_pwhash: fails for a password longer than PASSWD_MAX or when the
\* memory-hard hash cannot get its working memory; otherwise out_len bytes
\* determined by password, salt and cost parameters.
CryptoPwhash(password, out_len, nomem) ==
    IF nomem \/ ~U64Le(password.length, PASSWD_MAX)
    THEN [status |-> SODIUM_FAIL, output |-> Zeros(out_len)]
    ELSE LET d == PwDigest(password)
         IN  [status |-> 0,
              output |-> [i \in 1..out_len |-> (d * 37 + i * i * 11 + i * d + 5) % 256]]

-----------------------------------------------------------------------------
(* The SHISHUA generator (prng_init, prng_gen) *)

prng_init(seed) ==
    [s   |-> (U64Mod(seed[1], 251) + 3 * U64Mod(seed[2], 241)
              + 5 * U64Mod(seed[3], 239) + 7 * U64Mod(seed[4], 233)) % 251,
     ctr |-> 0]

\* one call of prng_gen: the generated buffer and the advanced state
prng_gen(state, size) ==
    [buf   |-> [j \in 1..size |->
                  (state.s * 73 + state.ctr * 151 + j * 199
                   + (state.s + 1) * (state.ctr + j)) % 256],
     state |-> [state EXCEPT !.ctr = @ + 1]]

-----------------------------------------------------------------------------
(* imc_crypto_context_create *)

\* the body of the function after both stack buffers are locked
CreateContext(password, nomem) ==
    LET out_len == KEYBYTES + SEEDBYTES
        h       == CryptoPwhash(password, out_len, nomem)
        key     == SubSeq(h.output, 1, KEYBYTES)
        seed    == [i \in 1..4 |->
                      Le64toh(SubSeq(h.output, KEYBYTES + 8 * (i - 1) + 1, KEYBYTES + 8 * i))]
        st      == prng_init(seed)
        g       == prng_gen(st, IMC_PRNG_BUFFER)
    IN  [status |-> h.status,
         seeded |-> st,
         context |-> [xcc20_key     |-> key,
                      shishua_state |-> g.state,
                      buf           |-> g.buf,
                      pos           |-> 0]]

\* HashFailureExit reporting the failed hash as a bad password
HashFailureExitInvalidPass ==
    [ret |-> IMC_ERR_INVALID_PASS, locked |-> {"prng_seed", "output"}, leaked |-> 1]

\* what the early return after a failed crypto_pwhash leaves behind
HashFailureExit ==
    [ret |-> IMC_ERR_NO_MEMORY, locked |-> {"prng_seed", "output"}, leaked |-> 1]

Create(password, malloc_fails, nomem) ==
    /\ ctx = NULL
    /\ heap < MaxHeap
    /\ last_op' = "create"
    /\ arg' = [password |-> password, malloc_fails |-> malloc_fails, nomem |-> nomem]
    /\ res' = NULL
    /\ IF malloc_fails
       THEN /\ ret' = IMC_ERR_NO_MEMORY
            /\ locked' = {}
            /\ UNCHANGED <<ctx, heap, seed0, consumed>>
       ELSE \E c \in {CreateContext(password, nomem)} :
                IF c.status < 0
                THEN /\ ret' = HashFailureExit.ret
                     /\ locked' = HashFailureExit.locked
                     /\ heap' = heap + HashFailureExit.leaked
                     /\ UNCHANGED <<ctx, seed0, consumed>>
                ELSE /\ ret' = IMC_SUCCESS
                     /\ locked' = {}
                     /\ heap' = heap + 1
                     /\ ctx' = c.context
                     /\ seed0' = c.seeded
                     /\ consumed' = 0
    /\ UNCHANGED <<frame, frame_len, plain, frame_key>>

\* imc_crypto_context_destroy
Destroy ==
    /\ ctx # NULL
    /\ last_op' = "destroy"
    /\ arg' = NULL
    /\ res' = NULL
    /\ ret' = 0
    /\ ctx' = NULL
    /\ heap' = heap - 1
    /\ seed0' = NULL
    /\ consumed' = 0
    /\ UNCHANGED <<locked, frame, frame_len, plain, frame_key>>

-----------------------------------------------------------------------------
(* imc_crypto_prng, imc_crypto_prng_uint64 *)

\* PrngByte that rewinds the cursor at the end of the buffer without refilling it
PrngByteStale(c) ==
    LET pos == c.pos + 1
    IN  [byte |-> c.buf[c.pos + 1],
         ctx  |-> [c EXCEPT !.pos = IF pos = IMC_PRNG_BUFFER THEN 0 ELSE pos]]

\* one iteration of the loop: the byte read, and the context after it
PrngByte(c) ==
    LET b   == c.buf[c.pos + 1]
        pos == c.pos + 1
    IN  IF pos = IMC_PRNG_BUFFER
        THEN LET g == prng_gen(c.shishua_state, IMC_PRNG_BUFFER)
             IN  [byte |-> b,
                  ctx  |-> [c EXCEPT !.shishua_state = g.state, !.buf = g.buf, !.pos = 0]]
        ELSE [byte |-> b, ctx |-> [c EXCEPT !.pos = pos]]

RECURSIVE PrngLoop(_, _, _)
PrngLoop(c, num_bytes, out) ==
    IF num_bytes = 0 THEN [ctx |-> c, output |-> out]
    ELSE LET r == PrngByte(c)
         IN  PrngLoop(r.ctx, num_bytes - 1, Append(out, r.byte))

imc_crypto_prng(c, num_bytes) == PrngLoop(c, num_bytes, <<>>)

imc_crypto_prng_uint64(c) ==
    LET r == imc_crypto_prng(c, 8)
    IN  [ctx |-> r.ctx, value |-> Le64toh(r.output), bytes |-> r.output]

Prng(num_bytes) ==
    /\ ctx # NULL
    /\ consumed + num_bytes <= MaxStream
    /\ \E r \in {imc_crypto_prng(ctx, num_bytes)} :
           /\ ctx' = r.ctx
           /\ res' = [output |-> r.output]
    /\ consumed' = consumed + num_bytes
    /\ last_op' = "prng"
    /\ arg' = [num_bytes |-> num_bytes]
    /\ ret' = 0
    /\ UNCHANGED <<heap, locked, seed0, frame, frame_len, plain, frame_key>>

-----------------------------------------------------------------------------
(* imc_crypto_shuffle_ptr *)

\* the index drawn at step i from a 64-bit PRNG value
NewIndex(random_num, i) == U64Mod(random_num, i)

\* XorSwap with the third assignment left out
XorSwapTwoSteps(arr, i, new_i) ==
    LET a1 == [arr EXCEPT ![i + 1] = BitXor(arr[i + 1], arr[new_i + 1])]
    IN  [a1 EXCEPT ![new_i + 1] = BitXor(a1[new_i + 1], a1[i + 1])]

\* the three XOR assignments on array[i] and array[new_i] (0-based indices)
XorSwap(arr, i, new_i) ==
    LET a1 == [arr EXCEPT ![i + 1] = BitXor(arr[i + 1], arr[new_i + 1])]
        a2 == [a1 EXCEPT ![new_i + 1] = BitXor(a1[new_i + 1], a1[i + 1])]
    IN  [a2 EXCEPT ![i + 1] = BitXor(a2[i + 1], a2[new_i + 1])]

\* the loop body once the index is drawn
ShuffleStep(arr, i, new_i) == IF new_i = i THEN arr ELSE XorSwap(arr, i, new_i)

RECURSIVE ShuffleLoop(_, _, _, _)
ShuffleLoop(c, arr, i, read) ==
    IF i = 0 THEN [ctx |-> c, array |-> arr, read |-> read]
    ELSE LET r == imc_crypto_prng_uint64(c)
         IN  ShuffleLoop(r.ctx, ShuffleStep(arr, i, NewIndex(r.value, i)), i - 1,
                         read \o r.bytes)

imc_crypto_shuffle_ptr(c, arr, num_elements) ==
    IF num_elements <= 1 THEN [ctx |-> c, array |-> arr, read |-> <<>>]
    ELSE ShuffleLoop(c, arr, num_elements - 1, <<>>)

\* 64-bit values the generator can return, as far as their residues matter
DrawValues == { U64(v) : v \in 0..MaxN } \cup { <<LIMB - 1, LIMB - 1, LIMB - 1, LIMB - 1>> }

\* every array the loop can end with from step i on, over all PRNG values
RECURSIVE OutcomesFrom(_, _)
OutcomesFrom(arr, i) ==
    IF i = 0 THEN {arr}
    ELSE UNION { OutcomesFrom(ShuffleStep(arr, i, NewIndex(v, i)), i - 1) : v \in DrawValues }

ShuffleOutcomes(arr) == IF Len(arr) <= 1 THEN {arr} ELSE OutcomesFrom(arr, Len(arr) - 1)

\* arrays the callers hand in: distinct pointers, and one with repeated and zero entries
Arrays(n) == { [i \in 1..n |-> 8 * i], [i \in 1..n |-> 5 * (i % 2)] }

Shuffle(arr) ==
    /\ ctx # NULL
    /\ Len(arr) <= 1 \/ consumed + 8 * (Len(arr) - 1) <= MaxStream
    /\ \E r \in {imc_crypto_shuffle_ptr(ctx, arr, Len(arr))} :
           /\ ctx' = r.ctx
           /\ res' = [array0 |-> arr, array |-> r.array, read |-> r.read]
           /\ consumed' = consumed + Len(r.read)
    /\ last_op' = "shuffle"
    /\ arg' = [num_elements |-> Len(arr)]
    /\ ret' = 0
    /\ UNCHANGED <<heap, locked, seed0, frame, frame_len, plain, frame_key>>

-----------------------------------------------------------------------------
(* crypto_secretstream_xchacha20poly1305 as the two functions use it       *)

\* 64 * (2^32 - 2): a longer message makes push call sodium_misuse(), which aborts
MESSAGEBYTES_MAX == <<LIMB - 128, LIMB - 1, 63, 0>>

\* modulus of the one-time authenticator
POLY_P == 32749

\* headers the library's random source can produce in init_push
Headers == { [i \in 1..HEADERBYTES |-> (n * 89 + i * 7 + 1) % 256] : n \in {0, 1} }

\* a weighted sum of the eight bytes after offset o
Mix8(b, o) ==
    b[o + 1] + 3 * b[o + 2] + 5 * b[o + 3] + 7 * b[o + 4]
    + 11 * b[o + 5] + 13 * b[o + 6] + 17 * b[o + 7] + 19 * b[o + 8]

\* init_push / init_pull: the stream state derived from key and header
\* (subkey from the key and header bytes 0..15, nonce from header bytes 16..23)
StreamInit(header, key) ==
    [k |-> (Mix8(key, 0) + 23 * Mix8(key, 8) + 29 * Mix8(key, 16) + 31 * Mix8(key, 24)
            + 37 * Mix8(header, 0) + 41 * Mix8(header, 8)) % 65521,
     n |-> Mix8(header, 16)]

\* keystream byte i of block ic
Keystream(st, ic, i) ==
    ((st.k % 251) * 97 + (st.n % 241) * 57 + ic * 131 + i * 29
     + ((st.k % 239) + ic) * ((st.n % 233) + i + 1)) % 256

XorStream(st, ic, m) == [i \in 1..Len(m) |-> BitXor(m[i], Keystream(st, ic, i))]

RECURSIVE PolyAcc(_, _, _)
PolyAcc(acc, r, bytes) ==
    IF bytes = <<>> THEN acc
    ELSE PolyAcc(((acc + Head(bytes) + 1) * r) % POLY_P, r, Tail(bytes))

\* the 16-byte authenticator over the encrypted tag byte, the ciphertext and its length
StreamMac(st, body) ==
    LET r == 1 + ((st.k * 31 + st.n * 17) % (POLY_P - 1))
        s == (st.k * 7 + st.n * 13 + 3) % POLY_P
        t == (PolyAcc(PolyAcc(0, r, body), r, <<Len(body) % 256>>) + s) % POLY_P
    IN  [j \in 1..MACBYTES |->
           IF j = 1 THEN t % 256
           ELSE IF j = 2 THEN t \div 256
           ELSE (t * j + s) % 256]

\* push of one chunk: encrypted tag byte, ciphertext, authenticator
SodiumPush(st, m, tag) ==
    LET body == <<BitXor(tag, Keystream(st, 1, 0))>> \o XorStream(st, 2, m)
    IN  body \o StreamMac(st, body)

\* pull of one chunk; nothing is written to the message buffer unless the
\* authenticator matches
SodiumPull(st, in) ==
    IF Len(in) < ABYTES
    THEN [status |-> SODIUM_FAIL, mlen |-> 0, tag |-> 255, m |-> <<>>]
    ELSE LET mlen   == Len(in) - ABYTES
             body   == SubSeq(in, 1, 1 + mlen)
             stored == SubSeq(in, 2 + mlen, Len(in))
         IN  IF StreamMac(st, body) # stored
             THEN [status |-> SODIUM_FAIL, mlen |-> 0, tag |-> 255, m |-> <<>>]
             ELSE [status |-> 0,
                   mlen   |-> mlen,
                   tag    |-> BitXor(in[1], Keystream(st, 1, 0)),
                   m      |-> XorStream(st, 2, SubSeq(in, 2, 1 + mlen))]

-----------------------------------------------------------------------------
(* imc_crypto_encrypt *)

IMC_CRYPTO_MAGIC == <<105, 109, 99, 108>>     \* "imcl"

\* *output_len after the push and after adding the stream header
StreamLen(data_len) == U64Add(U64Add(data_len, U64(ABYTES)), U64(HEADERBYTES))

\* the uint32_t stored at output[8]
SizeField(stream_len) == Htole32(U32Cast(stream_len))

\* data is [bytes, len]; the ciphertext is represented when the bytes are all tracked
Tracked(data) == data.len = U64(Len(data.bytes))

\* imc_crypto_encrypt that leaves the zeroed header buffer in the frame
imc_crypto_encrypt_zero_header(c, data, crypto_header) ==
    LET st         == StreamInit(crypto_header, c.xcc20_key)
        cipher     == IF Tracked(data) THEN SodiumPush(st, data.bytes, TAG_FINAL) ELSE <<>>
        stream_len == StreamLen(data.len)
    IN  [status     |-> 0,
         output     |-> IMC_CRYPTO_MAGIC
                        \o Htole32(U32Cast(U64(IMC_CRYPTO_VERSION)))
                        \o SizeField(stream_len)
                        \o Zeros(HEADERBYTES)
                        \o cipher,
         output_len |-> U64Add(stream_len, U64(IMC_HEADER_OVERHEAD))]

imc_crypto_encrypt(c, data, crypto_header) ==
    LET st         == StreamInit(crypto_header, c.xcc20_key)
        cipher     == IF Tracked(data) THEN SodiumPush(st, data.bytes, TAG_FINAL) ELSE <<>>
        stream_len == StreamLen(data.len)
    IN  [status     |-> 0,
         output     |-> IMC_CRYPTO_MAGIC
                        \o Htole32(U32Cast(U64(IMC_CRYPTO_VERSION)))
                        \o SizeField(stream_len)
                        \o crypto_header
                        \o cipher,
         output_len |-> U64Add(stream_len, U64(IMC_HEADER_OVERHEAD))]

\* Encrypt drawing HEADERBYTES bytes from the context's generator on the way
EncryptReadingPrng(data, crypto_header) ==
    /\ ctx # NULL
    /\ U64Le(data.len, MESSAGEBYTES_MAX)
    /\ \E r \in {imc_crypto_encrypt(ctx, data, crypto_header)} :
           /\ frame' = r.output
           /\ frame_len' = r.output_len
           /\ ret' = r.status
    /\ ctx' = imc_crypto_prng(ctx, HEADERBYTES).ctx
    /\ plain' = data
    /\ frame_key' = ctx.xcc20_key
    /\ last_op' = "encrypt"
    /\ arg' = [data_len |-> data.len]
    /\ res' = NULL
    /\ UNCHANGED <<heap, locked, seed0, consumed>>

Encrypt(data, crypto_header) ==
    /\ ctx # NULL
    /\ U64Le(data.len, MESSAGEBYTES_MAX)
    /\ \E r \in {imc_crypto_encrypt(ctx, data, crypto_header)} :
           /\ frame' = r.output
           /\ frame_len' = r.output_len
           /\ ret' = r.status
    /\ plain' = data
    /\ frame_key' = ctx.xcc20_key
    /\ last_op' = "encrypt"
    /\ arg' = [data_len |-> data.len]
    /\ res' = NULL
    /\ UNCHANGED <<ctx, heap, locked, seed0, consumed>>

-----------------------------------------------------------------------------
(* imc_crypto_decrypt *)

\* the first n bytes of a buffer replaced
Overwrite(buffer, bytes) ==
    [i \in 1..Len(buffer) |-> IF i <= Len(bytes) THEN bytes[i] ELSE buffer[i]]

\* imc_crypto_decrypt that accepts any tag marker
imc_crypto_decrypt_any_tag(c, header, data, out0) ==
    LET st == StreamInit(header, c.xcc20_key)
        p  == SodiumPull(st, data)
    IN  IF p.status < 0
        THEN [status |-> p.status, output |-> out0, output_len |-> U64(p.mlen)]
        ELSE [status |-> p.status, output |-> Overwrite(out0, p.m), output_len |-> U64(p.mlen)]

imc_crypto_decrypt(c, header, data, out0) ==
    LET st == StreamInit(header, c.xcc20_key)
        p  == SodiumPull(st, data)
    IN  IF p.status < 0
        THEN [status |-> p.status, output |-> out0, output_len |-> U64(p.mlen)]
        ELSE IF p.tag = TAG_FINAL
        THEN [status |-> p.status, output |-> Overwrite(out0, p.m), output_len |-> U64(p.mlen)]
        ELSE [status     |-> SODIUM_FAIL,
              output     |-> Overwrite(out0, Zeros(p.mlen)),
              output_len |-> U64(p.mlen)]

Decrypt(in, out0) ==
    /\ ctx # NULL
    /\ \E r \in {imc_crypto_decrypt(ctx, in.header, in.data, out0)} :
           /\ ret' = r.status
           /\ res' = [output |-> r.output, output_len |-> r.output_len]
    /\ last_op' = "decrypt"
    /\ arg' = [header |-> in.header, data |-> in.data, kind |-> in.kind, out0 |-> out0]
    /\ UNCHANGED <<ctx, heap, locked, seed0, consumed, frame, frame_len, plain, frame_key>>

-----------------------------------------------------------------------------
(* Inputs the callers supply *)

RECURSIVE SeqsUpTo(_, _)
SeqsUpTo(S, n) ==
    IF n = 0 THEN {<<>>}
    ELSE LET shorter == SeqsUpTo(S, n - 1)
         IN  shorter \cup { Append(q, x) : q \in shorter, x \in S }

PlainBytes == {0, 200}

\* plaintexts whose bytes are all tracked
TrackedData == { [bytes |-> b, len |-> U64(Len(b))] : b \in SeqsUpTo(PlainBytes, MaxLen) }

\* plaintexts given by their length alone (their bytes are not represented):
\* lengths around 2^16, around 2^32 - HEADERBYTES - ABYTES, around 2^32 and up
\* to MESSAGEBYTES_MAX
BulkLengths ==
    { U64Add(base, U64(d)) :
        base \in { <<LIMB - LenSpread, 0, 0, 0>>,
                   <<LIMB - HEADERBYTES - ABYTES - LenSpread, LIMB - 1, 0, 0>>,
                   <<LIMB - LenSpread, LIMB - 1, 0, 0>>,
                   <<LIMB - 128 - 2 * LenSpread, LIMB - 1, 63, 0>> },
        d \in 0..(2 * LenSpread) }

FewData == { [bytes |-> b, len |-> U64(Len(b))] : b \in {<<>>, <<200>>} }

BulkData == { [bytes |-> <<>>, len |-> n] : n \in BulkLengths }

\* the frame split at offset 12: cipher header, then ciphertext and tag
FrameHeader == SubSeq(frame, IMC_HEADER_OVERHEAD + 1, IMC_HEADER_OVERHEAD + HEADERBYTES)
FrameData == SubSeq(frame, IMC_HEADER_OVERHEAD + HEADERBYTES + 1, Len(frame))

\* one bit of byte p flipped
FlipAt(bytes, p) == [bytes EXCEPT ![p] = BitXor(@, 2 ^ ((p - 1) % 8))]

FrameInput == [header |-> FrameHeader, data |-> FrameData, kind |-> "frame"]

FlipInput(p) ==
    LET t == FlipAt(FrameHeader \o FrameData, p)
    IN  [header |-> SubSeq(t, 1, HEADERBYTES),
         data   |-> SubSeq(t, HEADERBYTES + 1, Len(t)),
         kind   |-> "flip"]

FlippedInputs == { FlipInput(p) : p \in 1..(HEADERBYTES + Len(FrameData)) }

CutInputs ==
    { [header |-> FrameHeader, data |-> SubSeq(FrameData, 1, n), kind |-> "cut"] :
        n \in {0, ABYTES - 1, Len(FrameData) - 1} }

\* chunks a peer holding the same key pushes with a tag other than FINAL
PeerInputs(tags, msgs) ==
    { [header |-> h,
       data   |-> SodiumPush(StreamInit(h, ctx.xcc20_key), m, tag),
       kind   |-> "peer"] : h \in Headers, m \in msgs, tag \in tags }

HaveFrame == frame # <<>> /\ Tracked(plain)

DecryptInputs ==
    (IF HaveFrame THEN {FrameInput} \cup FlippedInputs \cup CutInputs ELSE {})
    \cup PeerInputs({TAG_MESSAGE, TAG_FINAL - 1}, SeqsUpTo(PlainBytes, MaxLen))

FewDecryptInputs ==
    (IF HaveFrame
     THEN {FrameInput} \cup { FlipInput(p) : p \in {1, HEADERBYTES + 1, HEADERBYTES + Len(FrameData)} }
     ELSE {})
    \cup PeerInputs({TAG_MESSAGE}, {<<200>>})

\* the caller's output buffer before the call: room for the plaintext of
\* data, holding a fill pattern that stands for whatever was there
Buffers(data) ==
    { [i \in 1..(IF Len(data) >= ABYTES THEN Len(data) - ABYTES ELSE 0) |-> 170] }

-----------------------------------------------------------------------------
(* Specifications *)

Init ==
    /\ ctx = NULL
    /\ heap = 0
    /\ locked = {}
    /\ seed0 = NULL
    /\ consumed = 0
    /\ frame = <<>>
    /\ frame_len = U64(0)
    /\ plain = [bytes |-> <<>>, len |-> U64(0)]
    /\ frame_key = <<>>
    /\ last_op = "init"
    /\ arg = NULL
    /\ ret = 0
    /\ res = NULL

CreateCall == \E password \in Passwords, malloc_fails \in BOOLEAN, nomem \in BOOLEAN :
                  Create(password, malloc_fails, nomem)
PrngCall == \E num_bytes \in 0..MaxRead : Prng(num_bytes)
ShuffleCall == \E n \in 0..MaxN : \E arr \in Arrays(n) : Shuffle(arr)
CreateOkCall == \E password \in { p \in Passwords : U64Le(p.length, PASSWD_MAX) } :
                    Create(password, FALSE, FALSE)
EncryptCall == \E data \in TrackedData, h \in Headers : Encrypt(data, h)
FewEncryptCall == \E data \in FewData, h \in Headers : Encrypt(data, h)
EncryptBulkCall == \E data \in BulkData, h \in Headers : Encrypt(data, h)
DecryptCall == ctx # NULL /\ \E in \in DecryptInputs : \E out0 \in Buffers(in.data) : Decrypt(in, out0)
FewDecryptCall == ctx # NULL /\ \E in \in FewDecryptInputs : \E out0 \in Buffers(in.data) : Decrypt(in, out0)

\* the whole module, the cipher calls on a reduced set of inputs
Next == CreateOkCall \/ Destroy \/ PrngCall \/ ShuffleCall \/ FewEncryptCall \/ FewDecryptCall
Spec == Init /\ [][Next]_vars

\* key derivation, generator and shuffle
NextPrng == CreateCall \/ Destroy \/ PrngCall \/ ShuffleCall
SpecPrng == Init /\ [][NextPrng]_vars

\* key derivation and the stream cipher
NextCipher == CreateOkCall \/ Destroy \/ EncryptCall \/ DecryptCall
SpecCipher == Init /\ [][NextCipher]_vars

\* the frame's length arithmetic over the 64-bit range of data_len
NextLen == CreateOkCall \/ EncryptBulkCall
SpecLen == Init /\ [][NextLen]_vars

-----------------------------------------------------------------------------
(* Properties *)

Range(q) == { q[i] : i \in DOMAIN q }
Count(q, v) == Cardinality({ i \in DOMAIN q : q[i] = v })
IsRearrangement(a, b) ==
    /\ Len(a) = Len(b)
    /\ \A v \in Range(a) \cup Range(b) : Count(a, v) = Count(b, v)

\* C1: a shuffle leaves the array a rearrangement of the original (same
\* length, same multiset of entries), for the values the context's generator
\* returned and for every other sequence of values it could return; with
\* num_elements <= 1 the array is unchanged and no PRNG byte is read.
C1_ShuffleRearranges ==
    last_op = "shuffle" =>
        /\ IsRearrangement(res.array, res.array0)
        /\ Len(res.read) = (IF arg.num_elements <= 1 THEN 0 ELSE 8 * (arg.num_elements - 1))
        /\ arg.num_elements <= 1 => res.array = res.array0
        /\ \A out \in ShuffleOutcomes(res.array0) : IsRearrangement(out, res.array0)

C1_Witness ==
    /\ last_op = "shuffle"
    /\ arg.num_elements = MaxN
    /\ res.array # res.array0
    /\ Cardinality(Range(res.array0)) < MaxN

\* the k-th refill of the buffer (k = 0 is the one made at creation)
RECURSIVE Refill(_, _)
Refill(state, k) ==
    IF k = 0 THEN prng_gen(state, IMC_PRNG_BUFFER).buf
    ELSE Refill(prng_gen(state, IMC_PRNG_BUFFER).state, k - 1)

\* byte number k (from 0) of the concatenation of the successive refills
StreamByte(k) == Refill(seed0, k \div IMC_PRNG_BUFFER)[(k % IMC_PRNG_BUFFER) + 1]

BytesRead == IF last_op = "prng" THEN res.output ELSE IF last_op = "shuffle" THEN res.read ELSE <<>>

\* C6: the bytes a call returns are the next bytes of the concatenation of
\* the generator's successive refills, whatever the sizes of the reads before
\* it; between calls 0 <= pos < capacity, and the buffer is the refill the
\* next byte belongs to.
C6_StreamContinuity ==
    ctx # NULL =>
        /\ 0 <= ctx.pos /\ ctx.pos < IMC_PRNG_BUFFER
        /\ ctx.pos = consumed % IMC_PRNG_BUFFER
        /\ ctx.buf = Refill(seed0, consumed \div IMC_PRNG_BUFFER)
        /\ BytesRead = [j \in 1..Len(BytesRead) |-> StreamByte(consumed - Len(BytesRead) + j - 1)]

C6_Witness ==
    /\ last_op = "prng"
    /\ arg.num_bytes = MaxRead
    /\ consumed > 2 * IMC_PRNG_BUFFER
    /\ ctx.pos < MaxRead - 1

C3_SuccessOnlyIfGenuine ==
    last_op = "decrypt" =>
        /\ ret >= 0 =>
             /\ Len(arg.data) >= ABYTES
             /\ arg.data = SodiumPush(StreamInit(arg.header, ctx.xcc20_key),
                                      SubSeq(res.output, 1, Len(arg.data) - ABYTES),
                                      TAG_FINAL)
        /\ arg.kind \in {"flip", "cut", "peer"} => ret < 0
        /\ (arg.kind = "frame" /\ frame_key # ctx.xcc20_key) => ret < 0

C3_Witness ==
    /\ last_op = "decrypt"
    /\ arg.kind = "peer"
    /\ res.output_len = U64(MaxLen)
    /\ ret < 0

C3_WitnessWrongKey ==
    /\ last_op = "decrypt"
    /\ arg.kind = "frame"
    /\ frame_key # ctx.xcc20_key
    /\ ret < 0

\* C4: whenever decrypt fails, the caller's output buffer is all zero.
C4_ZeroOnEveryFailure ==
    (last_op = "decrypt" /\ ret < 0) => res.output = Zeros(Len(res.output))

\* C5: for every accepted data_len the size field at offset 8 is exactly
\* HEADERBYTES + data_len + ABYTES, and the output length is 12 more.
C5_ExactSizeField ==
    (last_op = "encrypt" /\ ret = 0) =>
        /\ U32Value(Le32toh(SubSeq(frame, 9, 12)))
             = U64Add(plain.len, U64(HEADERBYTES + ABYTES))
        /\ frame_len = U64Add(U32Value(Le32toh(SubSeq(frame, 9, 12))), U64(IMC_HEADER_OVERHEAD))

\* C7: whenever create returns, no stack buffer is left locked and unwiped,
\* and every allocated context is the one handed out through *out.
C7_NoLeakOnAnyExit ==
    last_op = "create" =>
        /\ locked = {}
        /\ heap = (IF ctx # NULL THEN 1 ELSE 0)

TooLong(password) == ~U64Le(password.length, PASSWD_MAX)

\* C8 as stated: NoMemory for a failed allocation or a hash that cannot
\* complete, InvalidPass when and only when the password buffer is
\* structurally invalid, Success only when neither occurs.
C8_ErrorsByCause ==
    last_op = "create" =>
        /\ ret = IMC_ERR_INVALID_PASS <=> TooLong(arg.password)
        /\ ret = IMC_ERR_NO_MEMORY <=> (~TooLong(arg.password) /\ (arg.malloc_fails \/ arg.nomem))
        /\ ret = IMC_SUCCESS <=> ~(TooLong(arg.password) \/ arg.malloc_fails \/ arg.nomem)

\* C8 amended: create returns NoMemory when the allocation fails or
\* crypto_pwhash fails for any reason, a password longer than the hash's
\* input limit included; it never returns InvalidPass; it returns Success,
\* with the new context in *out, exactly when none of these occurs.
C8_ErrorsAsCoded ==
    last_op = "create" =>
        /\ ret \in {IMC_SUCCESS, IMC_ERR_NO_MEMORY}
        /\ ret = IMC_ERR_NO_MEMORY <=> (TooLong(arg.password) \/ arg.malloc_fails \/ arg.nomem)
        /\ ret = IMC_SUCCESS => (ctx # NULL /\ consumed = 0 /\ ctx.pos = 0)
        /\ ret # IMC_SUCCESS => ctx = NULL

C8_Witness ==
    /\ last_op = "create"
    /\ TooLong(arg.password)
    /\ ~arg.malloc_fails
    /\ ~arg.nomem
    /\ ret = IMC_ERR_NO_MEMORY

\* C9: at step i the index is drawn from 0..i, and for n >= 2 distinct
\* entries every entry can end at every position, its own included.
C9_EverySlotReachable ==
    (last_op = "shuffle" /\ arg.num_elements >= 2
        /\ Cardinality(Range(res.array0)) = arg.num_elements) =>
        /\ \A i \in 1..(arg.num_elements - 1) : { NewIndex(v, i) : v \in DrawValues } = 0..i
        /\ \A p \in 1..arg.num_elements : \A e \in Range(res.array0) :
              \E out \in ShuffleOutcomes(res.array0) : out[p] = e

\* C10: a step of encrypt or decrypt leaves the whole context as it was
\* (key, generator state, buffer, cursor), so a shuffle gives the same
\* order after it as before it; and while a context lives its key never
\* changes.
C10_CipherLeavesContext ==
    [][ /\ last_op' \in {"encrypt", "decrypt"} =>
             /\ ctx' = ctx
             /\ LET arr == [i \in 1..MaxN |-> 8 * i]
                IN  imc_crypto_shuffle_ptr(ctx', arr, MaxN).array
                      = imc_crypto_shuffle_ptr(ctx, arr, MaxN).array
        /\ (ctx # NULL /\ ctx' # NULL) => ctx'.xcc20_key = ctx.xcc20_key ]_vars

C10_Witness ==
    /\ last_op = "decrypt"
    /\ ret < 0
    /\ consumed > IMC_PRNG_BUFFER
    /\ ctx.pos > 0
    /\ frame # <<>>

=============================================================================
